---- MODULE Spec2Model ----
(***************************************************************************)
(* Model of workflow/scripts/additional_statistics.py: read_data and main. *)
(*                                                                         *)
(* Representation.                                                         *)
(*  - A Python str is a sequence of tokens; a token is a one-element piece *)
(*    of text that holds no separator.  The separators "/" and "," are     *)
(*    tokens of their own, so str.split is a real computation on the       *)
(*    sequence and an f-string is a concatenation.                         *)
(*  - A float is <<num, den>>, a reduced fraction with den > 0; the        *)
(*    missing value (NaN) is <<>>.                                         *)
(*  - A standard deviation s is carried as the reduced fraction s * s (the *)
(*    sample variance): s = 1.0 is <<1, 1>>, s = sqrt(0.8) is <<4, 5>>.    *)
(*  - A CSV file is its parsed content: an edge list is a sequence of      *)
(*    <<source, sink>> pairs, a count table is [ncols, rows] with rows a   *)
(*    function from the index label to a sequence of ncols integer cells   *)
(*    (index labels are unique).                                           *)
(***************************************************************************)
EXTENDS Integers, Sequences, FiniteSets, TLC

VARIABLES
    dir_list,       \* snakemake.input.dir_list: sequence of directory strings
    pathway_files,  \* results/pathways/csv_files/*.csv : name -> edge list
    count_files,    \* resources/data/*/*.csv : name -> count table
    pc,             \* position in main
    idx,            \* position of the for loop of read_data in dir_list
    tmp,            \* read_data's accumulating record list
    df,             \* main's df, the value read_data returned
    out_dir,        \* TRUE once out_dir exists
    csv,            \* content of the output CSV file, <<>> while not written
    written,        \* names of the output files, in the order of writing
    err,            \* the exception that ended the run, "none" otherwise
    failed_at       \* the step of main that raised it, "none" otherwise

vars == <<dir_list, pathway_files, count_files, pc, idx, tmp, df, out_dir,
          csv, written, err, failed_at>>

----------------------------------------------------------------------------
(* Bounds of the model *)

MaxDirs == 2
MaxEdges == 2
MaxCols == 3

----------------------------------------------------------------------------
(* Floats *)

NaN == <<>>

Abs(n) == IF n < 0 THEN -n ELSE n

RECURSIVE Gcd(_, _)
Gcd(a, b) == IF b = 0 THEN a ELSE Gcd(b, a % b)

\* the float num/den
Float(num, den) ==
    LET g == Gcd(Abs(num), den)
    IN  <<num \div g, den \div g>>

isnan(v) == v = NaN

----------------------------------------------------------------------------
(* Strings *)

RECURSIVE Find(_, _, _)
\* least index >= k of token sep in s, 0 when there is none
Find(s, sep, k) ==
    IF k > Len(s) THEN 0
    ELSE IF s[k] = sep THEN k
    ELSE Find(s, sep, k + 1)

RECURSIVE split(_, _)
\* str.split(sep): the pieces between the separators, empty pieces kept
split(s, sep) ==
    LET k == Find(s, sep, 1)
    IN  IF k = 0 THEN <<s>>
        ELSE <<SubSeq(s, 1, k - 1)>> \o split(SubSeq(s, k + 1, Len(s)), sep)

\* *_, pathway, gene, study, treatment, deconf_param = dir_.split('/')
unpack_ok(dir_) == Len(split(dir_, "/")) >= 5

\* pathway, gene, study, treatment, deconf_param, *_ = dir_.split('/')
parse_input_first(dir_) ==
    LET segs == split(dir_, "/")
    IN  [pathway      |-> segs[1],
         gene         |-> segs[2],
         study        |-> segs[3],
         treatment    |-> segs[4],
         deconf_param |-> segs[5]]

parse_input(dir_) ==
    LET segs == split(dir_, "/")
        n    == Len(segs)
    IN  [pathway      |-> segs[n - 4],
         gene         |-> segs[n - 3],
         study        |-> segs[n - 2],
         treatment    |-> segs[n - 1],
         deconf_param |-> segs[n]]

\* gene.split(',')[:1]: only the first symbol is kept
gene_list_first(p) == <<split(p.gene, ",")[1]>>

\* gene_list = gene.split(',')
gene_list(p) == split(p.gene, ",")

pathway_fname(p) == <<"results/pathways/csv_files/">> \o p.pathway \o <<".csv">>

data_wt_fname(p) ==
    <<"resources/data/">> \o p.study \o <<"/Counts_Ctrl_">> \o p.treatment
        \o <<".csv">>

data_mt_fname(p) ==
    <<"resources/data/">> \o p.study \o <<"/Counts_">> \o p.gene \o <<"_">>
        \o p.treatment \o <<".csv">>

files_exist(p) ==
    /\ pathway_fname(p) \in DOMAIN pathway_files
    /\ data_wt_fname(p) \in DOMAIN count_files
    /\ data_mt_fname(p) \in DOMAIN count_files

----------------------------------------------------------------------------
(* The pathway graph *)

RECURSIVE add_edges(_, _, _)
\* nx.Graph.add_edges_from: adj[u][v] and adj[v][u] for every edge, in order
add_edges(adj, edges, k) ==
    IF k > Len(edges) THEN adj
    ELSE LET u  == edges[k][1]
             v  == edges[k][2]
             nodes == DOMAIN adj \cup {u, v}
             a1 == [n \in nodes |-> IF n \in DOMAIN adj THEN adj[n] ELSE {}]
             a2 == [a1 EXCEPT ![u] = @ \cup {v}]
             a3 == [a2 EXCEPT ![v] = @ \cup {u}]
         IN  add_edges(a3, edges, k + 1)

\* nx.from_pandas_edgelist(pd.read_csv(pathway_fname), 'source', 'sink')
from_pandas_edgelist(edges) == add_edges(<<>>, edges, 1)

\* g in graph
has_node(graph, g) == g \in DOMAIN graph

\* len(graph[g]): a self-loop counted once
degree_neighbours(graph, g) == Cardinality(graph[g])

\* graph.degree[g]: the neighbours, a self-loop counted twice
degree(graph, g) ==
    Cardinality(graph[g]) + (IF g \in graph[g] THEN 1 ELSE 0)

pathway_degree_value(graph, g) ==
    IF has_node(graph, g) THEN Float(degree(graph, g), 1) ELSE NaN

----------------------------------------------------------------------------
(* The expression table *)

nan_row(n) == [j \in 1..n |-> NaN]

cell_row(row) == [j \in 1..Len(row) |-> Float(row[j], 1)]

\* pd.concat([df_wt, df_mt], axis=1, join='inner')
concat_inner(df_wt, df_mt) ==
    [g \in DOMAIN df_wt.rows \cap DOMAIN df_mt.rows |->
        cell_row(df_wt.rows[g]) \o cell_row(df_mt.rows[g])]

\* pd.concat([df_wt, df_mt], axis=1): outer join on the index
concat(df_wt, df_mt) ==
    [g \in DOMAIN df_wt.rows \cup DOMAIN df_mt.rows |->
        (IF g \in DOMAIN df_wt.rows THEN cell_row(df_wt.rows[g])
                                     ELSE nan_row(df_wt.ncols))
        \o
        (IF g \in DOMAIN df_mt.rows THEN cell_row(df_mt.rows[g])
                                     ELSE nan_row(df_mt.ncols))]

\* df.loc[g] raises KeyError unless g is an index label
loc_ok(tbl, g) == g \in DOMAIN tbl

RECURSIVE count(_, _)
\* Series.count(): the number of cells that are not missing
count(row, k) ==
    IF k > Len(row) THEN 0
    ELSE (IF isnan(row[k]) THEN 0 ELSE 1) + count(row, k + 1)

RECURSIVE sum(_, _)
\* the sum of the cells that are not missing (the cells of a file are integers)
sum(row, k) ==
    IF k > Len(row) THEN 0
    ELSE (IF isnan(row[k]) THEN 0 ELSE row[k][1]) + sum(row, k + 1)

RECURSIVE sumsq(_, _)
sumsq(row, k) ==
    IF k > Len(row) THEN 0
    ELSE (IF isnan(row[k]) THEN 0 ELSE row[k][1] * row[k][1])
            + sumsq(row, k + 1)

\* Series.mean(): skipna=True
mean(row) ==
    LET n == count(row, 1)
    IN  IF n = 0 THEN NaN ELSE Float(sum(row, 1), n)

\* Series.std(ddof=0): the population standard deviation
std_population(row) ==
    LET n == count(row, 1)
        s == sum(row, 1)
    IN  IF n < 1 THEN NaN
        ELSE Float(n * sumsq(row, 1) - s * s, n * n)

\* Series.std(): skipna=True, ddof=1; carried as its square
std(row) ==
    LET n == count(row, 1)
        s == sum(row, 1)
    IN  IF n < 2 THEN NaN
        ELSE Float(n * sumsq(row, 1) - s * s, n * (n - 1))

----------------------------------------------------------------------------
(* read_data: the records of one gene symbol, and of one directory *)

label(a, g) == a \o <<" -- ">> \o g

\* the third record typed like the second
gene_records_same_type(p, graph, tbl, g) ==
    << [type   |-> "pathway_degree",
        gene   |-> p.gene,
        source |-> label(p.pathway, g),
        value  |-> pathway_degree_value(graph, g)],
       [type   |-> "expression_count_mean",
        gene   |-> p.gene,
        source |-> label(p.treatment, g),
        value  |-> mean(tbl[g])],
       [type   |-> "expression_count_mean",
        gene   |-> p.gene,
        source |-> label(p.treatment, g),
        value  |-> std(tbl[g])] >>

\* the standard deviation taken over df.loc[g][1:]
gene_records_std_tail(p, graph, tbl, g) ==
    << [type   |-> "pathway_degree",
        gene   |-> p.gene,
        source |-> label(p.pathway, g),
        value  |-> pathway_degree_value(graph, g)],
       [type   |-> "expression_count_mean",
        gene   |-> p.gene,
        source |-> label(p.treatment, g),
        value  |-> mean(tbl[g])],
       [type   |-> "expression_count_std",
        gene   |-> p.gene,
        source |-> label(p.treatment, g),
        value  |-> std(Tail(tbl[g]))] >>

\* the expression records labelled with deconf_param
gene_records_deconf(p, graph, tbl, g) ==
    << [type   |-> "pathway_degree",
        gene   |-> p.gene,
        source |-> label(p.pathway, g),
        value  |-> pathway_degree_value(graph, g)],
       [type   |-> "expression_count_mean",
        gene   |-> p.gene,
        source |-> label(p.deconf_param, g),
        value  |-> mean(tbl[g])],
       [type   |-> "expression_count_std",
        gene   |-> p.gene,
        source |-> label(p.deconf_param, g),
        value  |-> std(tbl[g])] >>

gene_records(p, graph, tbl, g) ==
    << [type   |-> "pathway_degree",
        gene   |-> p.gene,
        source |-> label(p.pathway, g),
        value  |-> pathway_degree_value(graph, g)],
       [type   |-> "expression_count_mean",
        gene   |-> p.gene,
        source |-> label(p.treatment, g),
        value  |-> mean(tbl[g])],
       [type   |-> "expression_count_std",
        gene   |-> p.gene,
        source |-> label(p.treatment, g),
        value  |-> std(tbl[g])] >>

RECURSIVE first_missing(_, _, _)
\* position of the first gene symbol whose df.loc[g] raises, 0 if none does
first_missing(tbl, genes, k) ==
    IF k > Len(genes) THEN 0
    ELSE IF ~loc_ok(tbl, genes[k]) THEN k
    ELSE first_missing(tbl, genes, k + 1)

RECURSIVE compute_statistics(_, _, _, _, _)
\* the records the inner loop appends for genes[k..upto]
compute_statistics(p, graph, tbl, k, upto) ==
    IF k > upto THEN <<>>
    ELSE gene_records(p, graph, tbl, gene_list(p)[k])
            \o compute_statistics(p, graph, tbl, k + 1, upto)

read_graph(p) == from_pandas_edgelist(pathway_files[pathway_fname(p)])

read_counts(p) ==
    concat(count_files[data_wt_fname(p)], count_files[data_mt_fname(p)])

----------------------------------------------------------------------------
(* The inputs: directory strings and the CSV files on disk *)

RECURSIVE join(_, _)
\* sep.join(segs)
join(segs, sep) ==
    IF Len(segs) = 0 THEN <<>>
    ELSE IF Len(segs) = 1 THEN segs[1]
    ELSE segs[1] \o <<sep>> \o join(Tail(segs), sep)

GeneX == <<"GeneX">>
GeneY == <<"GeneY">>
GeneZ == <<"GeneZ">>
PathwayA == <<"PathwayA">>
PathwayB == <<"PathwayB">>
Study1 == <<"Study1">>
Study2 == <<"Study2">>

\* the segment lists of the directory strings a run may be given
SegLists ==
    { \* the scenario x/y/PathwayA/GeneX/Study1/1/z
      << <<"x">>, <<"y">>, PathwayA, GeneX, Study1, <<"1">>, <<"z">> >>,
      \* exactly five segments, another deconf_param
      << PathwayA, GeneX, Study1, <<"1">>, <<"w">> >>,
      \* the same perturbation under another treatment
      << <<"x">>, PathwayA, GeneX, Study1, <<"2">>, <<"z">> >>,
      \* another pathway
      << <<"x">>, <<"y">>, PathwayB, GeneX, Study1, <<"1">>, <<"z">> >>,
      \* two-gene perturbations
      << <<"x">>, PathwayA, join(<<GeneX, GeneY>>, ","), Study1, <<"1">>,
         <<"z">> >>,
      << <<"x">>, PathwayA, join(<<GeneY, GeneZ>>, ","), Study1, <<"1">>,
         <<"z">> >>,
      \* four segments
      << GeneX, Study1, <<"1">>, <<"z">> >>,
      \* a trailing slash: the last segment is empty
      << <<"x">>, PathwayA, GeneX, Study1, <<"1">>, <<"z">>, <<>> >>,
      \* a study without data
      << <<"x">>, <<"y">>, PathwayA, GeneX, Study2, <<"1">>, <<"z">> >> }

DirPool == { join(segs, "/") : segs \in SegLists }

RECURSIVE SeqsUpTo(_, _)
\* the sequences over S of length at most n
SeqsUpTo(S, n) ==
    IF n = 0 THEN { <<>> }
    ELSE LET shorter == SeqsUpTo(S, n - 1)
         IN  shorter \cup { Append(q, x) : q \in shorter, x \in S }

EdgePool == { <<GeneX, GeneY>>, <<GeneY, GeneX>>, <<GeneX, GeneX>> }

EdgeLists == SeqsUpTo(EdgePool, MaxEdges)

\* the counts of gene g in sample j of a file, shifted by shift
Counts(g, j, shift) ==
    (IF g = GeneX THEN j ELSE 2 * j + 3) + shift

Table(keys, n, shift) ==
    [ncols |-> n,
     rows  |-> [g \in keys |-> [j \in 1..n |-> Counts(g, j, shift)]]]

CtrlTables ==
    { Table(keys, n, 0) : keys \in {{GeneX, GeneY}, {GeneY}}, n \in 1..MaxCols }

MutTables ==
    { Table(keys, n, shift) :
        keys \in {{GeneX, GeneY}, {GeneY}}, n \in 1..MaxCols, shift \in {0, 2} }

Worlds == [edges : EdgeLists, wt : CtrlTables, mt : MutTables]

\* the files of the scenario: PathwayA.csv holds the one edge GeneX,GeneY and
\* both count files hold the row GeneX = [1, 2, 3]
ScenarioWorld ==
    [edges |-> << <<GeneX, GeneY>> >>,
     wt    |-> Table({GeneX, GeneY}, 3, 0),
     mt    |-> Table({GeneX, GeneY}, 3, 0)]

RunWorlds ==
    { ScenarioWorld,
      [edges |-> << <<GeneX, GeneX>>, <<GeneY, GeneX>> >>,
       wt    |-> Table({GeneY}, 2, 0),
       mt    |-> Table({GeneX, GeneY}, 1, 2)],
      [edges |-> <<>>,
       wt    |-> Table({GeneY}, 1, 0),
       mt    |-> Table({GeneY}, 2, 2)] }

\* the files on disk, named as the directory convention names them
PathwayFiles(w) ==
    (<<"results/pathways/csv_files/", "PathwayA", ".csv">> :> w.edges)
    @@ (<<"results/pathways/csv_files/", "PathwayB", ".csv">>
            :> << <<GeneY, GeneZ>> >>)

CountFiles(w) ==
    (<<"resources/data/", "Study1", "/Counts_Ctrl_", "1", ".csv">> :> w.wt)
    @@ (<<"resources/data/", "Study1", "/Counts_", "GeneX", "_", "1", ".csv">>
            :> w.mt)
    @@ (<<"resources/data/", "Study1", "/Counts_", "GeneX", ",", "GeneY", "_",
          "1", ".csv">> :> w.mt)
    @@ (<<"resources/data/", "Study1", "/Counts_", "GeneY", ",", "GeneZ", "_",
          "1", ".csv">> :> w.mt)
    @@ (<<"resources/data/", "Study1", "/Counts_Ctrl_", "2", ".csv">>
            :> Table({GeneX}, 2, 1))
    @@ (<<"resources/data/", "Study1", "/Counts_", "GeneX", "_", "2", ".csv">>
            :> Table({GeneX, GeneY}, 2, 3))

InitRun(dirs, w) ==
    /\ dir_list = dirs
    /\ pathway_files = PathwayFiles(w)
    /\ count_files = CountFiles(w)
    /\ pc = "mkdir"
    /\ idx = 1
    /\ tmp = <<>>
    /\ df = <<>>
    /\ out_dir = FALSE
    /\ csv = <<>>
    /\ written = <<>>
    /\ err = "none"
    /\ failed_at = "none"

\* runs over lists of directories
Init == \E dirs \in SeqsUpTo(DirPool, MaxDirs), w \in RunWorlds :
            InitRun(dirs, w)

\* runs over one directory, the files varied
InitData == \E d \in DirPool, w \in Worlds : InitRun(<<d>>, w)

----------------------------------------------------------------------------
(* main and read_data as a state machine *)

\* out_dir.mkdir(parents=True, exist_ok=True)
Mkdir ==
    /\ pc = "mkdir"
    /\ out_dir' = TRUE
    /\ pc' = "read_data"
    /\ UNCHANGED <<dir_list, pathway_files, count_files, idx, tmp, df, csv,
                   written, err, failed_at>>

\* one iteration of "for dir_ in tqdm(dir_list)" that runs to its end
ReadDir ==
    /\ pc = "read_data"
    /\ idx <= Len(dir_list)
    /\ unpack_ok(dir_list[idx])
    /\ LET p == parse_input(dir_list[idx])
       IN  /\ files_exist(p)
           /\ first_missing(read_counts(p), gene_list(p), 1) = 0
           /\ tmp' = tmp \o compute_statistics(p, read_graph(p),
                                read_counts(p), 1, Len(gene_list(p)))
    /\ idx' = idx + 1
    /\ UNCHANGED <<dir_list, pathway_files, count_files, pc, df, out_dir,
                   csv, written, err, failed_at>>

\* the unpacking of dir_.split('/') raises ValueError
ReadDirValueError ==
    /\ pc = "read_data"
    /\ idx <= Len(dir_list)
    /\ ~unpack_ok(dir_list[idx])
    /\ pc' = "failed"
    /\ err' = "ValueError"
    /\ failed_at' = pc
    /\ UNCHANGED <<dir_list, pathway_files, count_files, idx, tmp, df,
                   out_dir, csv, written>>

\* one of the three pd.read_csv calls raises FileNotFoundError
ReadDirFileNotFound ==
    /\ pc = "read_data"
    /\ idx <= Len(dir_list)
    /\ unpack_ok(dir_list[idx])
    /\ ~files_exist(parse_input(dir_list[idx]))
    /\ pc' = "failed"
    /\ err' = "FileNotFoundError"
    /\ failed_at' = pc
    /\ UNCHANGED <<dir_list, pathway_files, count_files, idx, tmp, df,
                   out_dir, csv, written>>

\* the KeyError caught and the directory skipped, its first records kept
ReadDirKeyError_skipped ==
    /\ pc = "read_data"
    /\ idx <= Len(dir_list)
    /\ unpack_ok(dir_list[idx])
    /\ LET p == parse_input(dir_list[idx])
       IN  /\ files_exist(p)
           /\ LET k == first_missing(read_counts(p), gene_list(p), 1)
              IN  /\ k > 0
                  /\ tmp' = tmp \o compute_statistics(p, read_graph(p),
                                        read_counts(p), 1, k - 1)
    /\ idx' = idx + 1
    /\ UNCHANGED <<dir_list, pathway_files, count_files, pc, df, out_dir,
                   csv, written, err, failed_at>>

\* df.loc[g] raises KeyError; the records of the genes before g are in tmp
ReadDirKeyError ==
    /\ pc = "read_data"
    /\ idx <= Len(dir_list)
    /\ unpack_ok(dir_list[idx])
    /\ LET p == parse_input(dir_list[idx])
       IN  /\ files_exist(p)
           /\ LET k == first_missing(read_counts(p), gene_list(p), 1)
              IN  /\ k > 0
                  /\ tmp' = tmp \o compute_statistics(p, read_graph(p),
                                        read_counts(p), 1, k - 1)
    /\ pc' = "failed"
    /\ err' = "KeyError"
    /\ failed_at' = pc
    /\ UNCHANGED <<dir_list, pathway_files, count_files, idx, df, out_dir,
                   csv, written>>

\* return pd.DataFrame(tmp); df = read_data(dir_list)
ReadReturn ==
    /\ pc = "read_data"
    /\ idx > Len(dir_list)
    /\ df' = tmp
    /\ pc' = "to_csv"
    /\ UNCHANGED <<dir_list, pathway_files, count_files, idx, tmp, out_dir,
                   csv, written, err, failed_at>>

\* df.to_csv(fname, index=False)
ToCsv ==
    /\ pc = "to_csv"
    /\ csv' = df
    /\ written' = Append(written, "fname")
    /\ pc' = "degrees"
    /\ UNCHANGED <<dir_list, pathway_files, count_files, idx, tmp, df,
                   out_dir, err,
                   failed_at>>

\* a DataFrame of no records has no columns: df['type'] raises KeyError
plot_ok(table) == Len(table) > 0

\* counts_std.pdf drawn before counts_mean.pdf
next_pc_swapped(stage) ==
    CASE stage = "degrees"     -> "counts_std"
      [] stage = "counts_std"  -> "counts_mean"
      [] stage = "counts_mean" -> "done"

next_pc(stage) ==
    CASE stage = "degrees"     -> "counts_mean"
      [] stage = "counts_mean" -> "counts_std"
      [] stage = "counts_std"  -> "done"

pdf_name(stage) ==
    CASE stage = "degrees"     -> "degrees.pdf"
      [] stage = "counts_mean" -> "counts_mean.pdf"
      [] stage = "counts_std"  -> "counts_std.pdf"

\* plt.figure ... plt.savefig(out_dir / '<stage>.pdf')
Plot(stage) ==
    /\ pc = stage
    /\ plot_ok(df)
    /\ written' = Append(written, pdf_name(stage))
    /\ pc' = next_pc(stage)
    /\ UNCHANGED <<dir_list, pathway_files, count_files, idx, tmp, df,
                   out_dir, csv, err, failed_at>>

\* a plotting step raises: df['type'] on an empty table, or the plotting
\* library or the file system fails
PlotFails(stage) ==
    /\ pc = stage
    /\ pc' = "failed"
    /\ err' = "PlotError"
    /\ failed_at' = pc
    /\ UNCHANGED <<dir_list, pathway_files, count_files, idx, tmp, df,
                   out_dir, csv, written>>

PlotDegrees == Plot("degrees")
PlotDegreesFails == PlotFails("degrees")
PlotCountsMean == Plot("counts_mean")
PlotCountsMeanFails == PlotFails("counts_mean")
PlotCountsStd == Plot("counts_std")
PlotCountsStdFails == PlotFails("counts_std")

Next ==
    \/ Mkdir
    \/ ReadDir
    \/ ReadDirValueError
    \/ ReadDirFileNotFound
    \/ ReadDirKeyError
    \/ ReadReturn
    \/ ToCsv
    \/ PlotDegrees
    \/ PlotDegreesFails
    \/ PlotCountsMean
    \/ PlotCountsMeanFails
    \/ PlotCountsStd
    \/ PlotCountsStdFails

Spec == Init /\ [][Next]_vars

SpecData == InitData /\ [][Next]_vars

----------------------------------------------------------------------------
(* What the properties are stated in: the directory strings as they were   *)
(* put together, the files as they lie on disk.  Nothing here goes         *)
(* through split, parse_input or the statistics of read_data.              *)

\* the segments each directory string was joined from
SegsTable == [d \in DirPool |-> CHOOSE segs \in SegLists : join(segs, "/") = d]

SegsOf(d) == SegsTable[d]

NumSegs(d) == Len(SegsOf(d))

\* the last five segments of d, for a d of five or more segments
FieldsOf(d) ==
    LET segs == SegsOf(d)
        n    == Len(segs)
    IN  [pathway      |-> segs[n - 4],
         gene         |-> segs[n - 3],
         study        |-> segs[n - 2],
         treatment    |-> segs[n - 1],
         deconf_param |-> segs[n]]

IsSymbolToken(t) == t # ","

\* the gene symbols of a gene field whose symbols are one token each
Symbols(gene) ==
    LET toks == SelectSeq(gene, IsSymbolToken)
    IN  [j \in 1..Len(toks) |-> <<toks[j]>>]

SymbolsOf(d) == Symbols(FieldsOf(d).gene)

RECURSIVE SymbolsUpTo(_)
\* the number of gene symbols of the first k directories of dir_list
SymbolsUpTo(k) ==
    IF k = 0 THEN 0
    ELSE Len(SymbolsOf(dir_list[k])) + SymbolsUpTo(k - 1)

\* the position in the table before the records of directory k
Offset(k) == 3 * SymbolsUpTo(k - 1)

\* the position of the record of the given kind (1, 2, 3) of symbol m of
\* directory k
At(k, m, kind) == Offset(k) + 3 * (m - 1) + kind

ReadDataCompleted ==
    \/ pc \in {"to_csv", "degrees", "counts_mean", "counts_std", "done"}
    \/ pc = "failed" /\ failed_at # "read_data"

ReadDataFailed == pc = "failed" /\ failed_at = "read_data"

\* the directories read_data has gone through without raising
Processed == 1..(idx - 1)

TypeOrder ==
    <<"pathway_degree", "expression_count_mean", "expression_count_std">>

SpecLabel(a, g) == a \o <<" -- ">> \o g

PathwayFileOf(d) ==
    <<"results/pathways/csv_files/">> \o FieldsOf(d).pathway \o <<".csv">>

CtrlFileOf(d) ==
    <<"resources/data/">> \o FieldsOf(d).study \o <<"/Counts_Ctrl_">>
        \o FieldsOf(d).treatment \o <<".csv">>

MutFileOf(d) ==
    <<"resources/data/">> \o FieldsOf(d).study \o <<"/Counts_">>
        \o FieldsOf(d).gene \o <<"_">> \o FieldsOf(d).treatment \o <<".csv">>

FilesPresent(d) ==
    /\ PathwayFileOf(d) \in DOMAIN pathway_files
    /\ CtrlFileOf(d) \in DOMAIN count_files
    /\ MutFileOf(d) \in DOMAIN count_files

InCtrl(d, g) == g \in DOMAIN count_files[CtrlFileOf(d)].rows
InMut(d, g) == g \in DOMAIN count_files[MutFileOf(d)].rows

\* read_data raises on directory d
BadDir(d) ==
    \/ NumSegs(d) < 5
    \/ ~FilesPresent(d)
    \/ \E m \in 1..Len(SymbolsOf(d)) :
            ~InCtrl(d, SymbolsOf(d)[m]) /\ ~InMut(d, SymbolsOf(d)[m])

----------------------------------------------------------------------------
(* C1: on every list of directories on which read_data completes, the     *)
(* table has 3 x N records, N the number of gene symbols over the list     *)
(* (a repeated directory counted each time): for every listed gene symbol  *)
(* one pathway_degree, one expression_count_mean and one                   *)
(* expression_count_std record.  The same count holds of tmp after each    *)
(* iteration of the loop.                                                  *)
C1_RecordCount ==
    /\ pc = "read_data" => Len(tmp) = 3 * SymbolsUpTo(idx - 1)
    /\ ReadDataCompleted =>
        /\ Len(df) = 3 * SymbolsUpTo(Len(dir_list))
        /\ \A k \in 1..Len(dir_list) :
             \A m \in 1..Len(SymbolsOf(dir_list[k])) :
               \A kind \in 1..3 :
                 /\ df[At(k, m, kind)].type = TypeOrder[kind]
                 /\ df[At(k, m, kind)].gene = FieldsOf(dir_list[k]).gene
                 /\ df[At(k, m, kind)].source =
                      SpecLabel(IF kind = 1
                                  THEN FieldsOf(dir_list[k]).pathway
                                  ELSE FieldsOf(dir_list[k]).treatment,
                                SymbolsOf(dir_list[k])[m])

\* a two-gene directory listed twice: 12 records
C1_Witness ==
    /\ pc = "done"
    /\ Len(dir_list) = 2
    /\ dir_list[1] = dir_list[2]
    /\ Len(SymbolsOf(dir_list[1])) = 2
    /\ Len(df) = 12

----------------------------------------------------------------------------
(* C8: the path parser takes the last five slash-separated segments as     *)
(* pathway, gene, study, treatment, deconf_param and ignores the earlier   *)
(* ones, for every string of five or more segments; on a string of fewer   *)
(* than five segments the parsing raises and no record is produced for it. *)
C8_PathParser ==
    /\ \A k \in 1..Len(dir_list) :
         IF NumSegs(dir_list[k]) >= 5
            THEN /\ unpack_ok(dir_list[k])
                 /\ parse_input(dir_list[k]) = FieldsOf(dir_list[k])
            ELSE ~unpack_ok(dir_list[k])
    /\ \A k \in Processed :
         /\ NumSegs(dir_list[k]) >= 5
         /\ tmp[At(k, 1, 1)].gene = FieldsOf(dir_list[k]).gene
         /\ tmp[At(k, 1, 1)].source =
              SpecLabel(FieldsOf(dir_list[k]).pathway, SymbolsOf(dir_list[k])[1])
         /\ tmp[At(k, 1, 2)].source =
              SpecLabel(FieldsOf(dir_list[k]).treatment,
                        SymbolsOf(dir_list[k])[1])
    /\ err = "ValueError" =>
         /\ ReadDataFailed
         /\ NumSegs(dir_list[idx]) < 5
         /\ Len(tmp) = Offset(idx)
    /\ (pc \notin {"mkdir", "read_data"}
          /\ \E k \in 1..Len(dir_list) : NumSegs(dir_list[k]) < 5)
         => ReadDataFailed

\* a directory of exactly five segments went through, the next one has four
C8_Witness ==
    /\ err = "ValueError"
    /\ idx = 2
    /\ NumSegs(dir_list[1]) = 5
    /\ NumSegs(dir_list[2]) = 4
    /\ Len(tmp) = 3

----------------------------------------------------------------------------
(* C4: if read_data raises on any directory of the list (too few segments, *)
(* a missing CSV file, a gene symbol that is a row of neither count        *)
(* table), main ends with neither the CSV nor any PDF written, whatever    *)
(* was processed before.                                                   *)
C4_NoPartialOutput ==
    /\ (\E k \in 1..Len(dir_list) : BadDir(dir_list[k])) =>
         /\ written = <<>>
         /\ csv = <<>>
         /\ pc \in {"mkdir", "read_data", "failed"}
         /\ pc = "failed" => failed_at = "read_data"
    /\ ReadDataFailed =>
         /\ written = <<>>
         /\ csv = <<>>
         /\ ~ENABLED Next

\* the first directory and the first gene of the second went through
C4_Witness ==
    /\ ReadDataFailed
    /\ err = "KeyError"
    /\ idx = 2
    /\ Len(SymbolsOf(dir_list[1])) = 1
    /\ Len(tmp) = 6
    /\ written = <<>>

----------------------------------------------------------------------------
\* the output files in the order main writes them
OutputOrder == <<"fname", "degrees.pdf", "counts_mean.pdf", "counts_std.pdf">>

(* C5: the outputs are written in the order CSV, degrees.pdf,              *)
(* counts_mean.pdf, counts_std.pdf; once anything is written the CSV holds *)
(* the complete table of all directories; a plotting step that fails       *)
(* leaves the CSV and the earlier plots, and that plot and the later ones  *)
(* missing.                                                                *)
C5_OutputOrder ==
    /\ Len(written) <= Len(OutputOrder)
    /\ written = SubSeq(OutputOrder, 1, Len(written))
    /\ Len(written) >= 1 =>
         /\ idx = Len(dir_list) + 1
         /\ csv = tmp
         /\ Len(csv) = 3 * SymbolsUpTo(Len(dir_list))
    /\ (pc = "degrees" \/ (pc = "failed" /\ failed_at = "degrees"))
         => Len(written) = 1
    /\ (pc = "counts_mean" \/ (pc = "failed" /\ failed_at = "counts_mean"))
         => Len(written) = 2
    /\ (pc = "counts_std" \/ (pc = "failed" /\ failed_at = "counts_std"))
         => Len(written) = 3
    /\ pc = "done" => written = OutputOrder

\* counts_mean.pdf failed: the CSV and degrees.pdf are there
C5_Witness ==
    /\ pc = "failed"
    /\ failed_at = "counts_mean"
    /\ written = <<"fname", "degrees.pdf">>
    /\ Len(csv) = 6
    /\ Len(dir_list) = 2

----------------------------------------------------------------------------
(* C6                                                                      *)

SameKey(r1, r2) ==
    /\ r1.type = r2.type
    /\ r1.gene = r2.gene
    /\ r1.source = r2.source

(* C6 as stated: no two records of the table read_data returns have the    *)
(* same type, gene label and source label.                                 *)
C6_Original ==
    ReadDataCompleted =>
        \A a, b \in 1..Len(df) : a < b => ~SameKey(df[a], df[b])

(* C6 amended: the table has one row per (list entry, listed gene symbol,  *)
(* type).  The three records of one gene symbol differ in type, so two     *)
(* records with the same (type, gene, source) come from different list     *)
(* entries or gene positions; and two list entries with the same pathway   *)
(* and gene field do yield pathway_degree records with the same (type,     *)
(* gene, source), two with the same treatment and gene field do so for the *)
(* mean and the std records.                                               *)
C6_RowPerEntrySymbolType ==
    /\ \A a, b \in 1..Len(tmp) :
         (a < b /\ SameKey(tmp[a], tmp[b])) => (a - 1) \div 3 # (b - 1) \div 3
    /\ \A i, j \in Processed :
         (i < j /\ FieldsOf(dir_list[i]).gene = FieldsOf(dir_list[j]).gene) =>
           \A m \in 1..Len(SymbolsOf(dir_list[i])) :
             /\ FieldsOf(dir_list[i]).pathway = FieldsOf(dir_list[j]).pathway
                  => SameKey(tmp[At(i, m, 1)], tmp[At(j, m, 1)])
             /\ FieldsOf(dir_list[i]).treatment = FieldsOf(dir_list[j]).treatment
                  => /\ SameKey(tmp[At(i, m, 2)], tmp[At(j, m, 2)])
                     /\ SameKey(tmp[At(i, m, 3)], tmp[At(j, m, 3)])

\* the same perturbation under two treatments: two rows
\* (pathway_degree, GeneX, "PathwayA -- GeneX")
C6_Witness ==
    /\ pc = "done"
    /\ Len(dir_list) = 2
    /\ FieldsOf(dir_list[1]).treatment # FieldsOf(dir_list[2]).treatment
    /\ Len(df) = 6
    /\ SameKey(df[1], df[4])

----------------------------------------------------------------------------
\* d1 and d2 agree on pathway, gene, study and treatment
SameTuple(d1, d2) ==
    /\ FieldsOf(d1).pathway = FieldsOf(d2).pathway
    /\ FieldsOf(d1).gene = FieldsOf(d2).gene
    /\ FieldsOf(d1).study = FieldsOf(d2).study
    /\ FieldsOf(d1).treatment = FieldsOf(d2).treatment

(* C10: deconf_param and the segments before the last five do not reach    *)
(* the output: two directories of a list that agree on pathway, gene,      *)
(* study and treatment contribute the same records, and read_data raises   *)
(* on both or on neither.                                                  *)
C10_DeconfIgnored ==
    /\ \A i, j \in Processed :
         (i < j /\ SameTuple(dir_list[i], dir_list[j])) =>
           \A n \in 1..(3 * Len(SymbolsOf(dir_list[i]))) :
             tmp[Offset(i) + n] = tmp[Offset(j) + n]
    /\ (ReadDataFailed /\ NumSegs(dir_list[idx]) >= 5) =>
         \A i \in Processed : ~SameTuple(dir_list[i], dir_list[idx])

\* same four fields, another deconf_param, other leading segments
C10_Witness ==
    /\ pc = "done"
    /\ Len(dir_list) = 2
    /\ SameTuple(dir_list[1], dir_list[2])
    /\ FieldsOf(dir_list[1]).deconf_param # FieldsOf(dir_list[2]).deconf_param
    /\ NumSegs(dir_list[1]) # NumSegs(dir_list[2])
    /\ Len(df) = 6

----------------------------------------------------------------------------
(* Graph degree and row statistics, from the files *)

EdgesOf(d) == pathway_files[PathwayFileOf(d)]

\* g is an endpoint of an edge of the list
InGraph(edges, g) ==
    \E k \in 1..Len(edges) : g = edges[k][1] \/ g = edges[k][2]

\* the other endpoints of the edges at g (g itself for a self-loop)
Neighbours(edges, g) ==
    { v \in {edges[k][1] : k \in 1..Len(edges)}
            \cup {edges[k][2] : k \in 1..Len(edges)} :
        \E k \in 1..Len(edges) : {edges[k][1], edges[k][2]} = {g, v} }

\* degree in the undirected simple graph: a self-loop counts twice
DegreeSpec(edges, g) ==
    Cardinality(Neighbours(edges, g) \ {g})
        + (IF g \in Neighbours(edges, g) THEN 2 ELSE 0)

\* the counts of gene g in the control file, then in the mutant file
CtrlValues(d, g) ==
    IF InCtrl(d, g) THEN count_files[CtrlFileOf(d)].rows[g] ELSE <<>>

MutValues(d, g) ==
    IF InMut(d, g) THEN count_files[MutFileOf(d)].rows[g] ELSE <<>>

RowValues(d, g) == CtrlValues(d, g) \o MutValues(d, g)

RECURSIVE SumOf(_)
SumOf(vals) == IF vals = <<>> THEN 0 ELSE Head(vals) + SumOf(Tail(vals))

\* the float v is num/den
IsFloat(v, num, den) == v # NaN /\ v[2] > 0 /\ v[1] * den = v[2] * num

\* v is the mean of vals, missing for no value
IsMeanOf(v, vals) ==
    IF Len(vals) = 0 THEN v = NaN
    ELSE IsFloat(v, SumOf(vals), Len(vals))

\* v is the sample variance of vals: sum (x - mean)^2 / (n - 1), missing for
\* fewer than two values
IsSampleVarOf(v, vals) ==
    LET n  == Len(vals)
        s  == SumOf(vals)
        dd == [j \in 1..n |-> (n * vals[j] - s) * (n * vals[j] - s)]
    IN  IF n < 2 THEN v = NaN
        ELSE IsFloat(v, SumOf(dd), n * n * (n - 1))

----------------------------------------------------------------------------
(* C2: the pathway_degree record of gene symbol g of a directory holds the *)
(* degree of g in the undirected graph of the directory's edge list when g *)
(* is a node of it, and the missing value otherwise; a gene that is no     *)
(* node causes no failure and its other two records are emitted.           *)
C2_PathwayDegree ==
    /\ \A k \in Processed :
         \A m \in 1..Len(SymbolsOf(dir_list[k])) :
           LET g == SymbolsOf(dir_list[k])[m]
               edges == EdgesOf(dir_list[k])
           IN  /\ tmp[At(k, m, 1)].type = "pathway_degree"
               /\ tmp[At(k, m, 1)].source =
                    SpecLabel(FieldsOf(dir_list[k]).pathway, g)
               /\ tmp[At(k, m, 1)].value =
                    (IF InGraph(edges, g) THEN <<DegreeSpec(edges, g), 1>>
                                          ELSE NaN)
               /\ tmp[At(k, m, 2)].type = "expression_count_mean"
               /\ tmp[At(k, m, 3)].type = "expression_count_std"
               /\ tmp[At(k, m, 2)].source =
                    SpecLabel(FieldsOf(dir_list[k]).treatment, g)
               /\ tmp[At(k, m, 3)].source =
                    SpecLabel(FieldsOf(dir_list[k]).treatment, g)
    /\ (pc \notin {"mkdir", "read_data"}
          /\ \A k \in 1..Len(dir_list) : ~BadDir(dir_list[k]))
         => ReadDataCompleted

\* GeneX is no node of the graph: a missing degree, and a mean
C2_Witness ==
    /\ pc = "done"
    /\ Len(tmp) = 3
    /\ ~InGraph(EdgesOf(dir_list[1]), SymbolsOf(dir_list[1])[1])
    /\ EdgesOf(dir_list[1]) # <<>>
    /\ tmp[1].value = NaN
    /\ tmp[2].value # NaN

----------------------------------------------------------------------------
(* C3 *)

ScenarioDir ==
    <<"x", "/", "y", "/", "PathwayA", "/", "GeneX", "/", "Study1", "/", "1",
      "/", "z">>

Scenario ==
    /\ dir_list = <<ScenarioDir>>
    /\ pathway_files[<<"results/pathways/csv_files/", "PathwayA", ".csv">>]
         = << <<GeneX, GeneY>> >>
    /\ LET wt == count_files[<<"resources/data/", "Study1", "/Counts_Ctrl_",
                               "1", ".csv">>]
           mt == count_files[<<"resources/data/", "Study1", "/Counts_",
                               "GeneX", "_", "1", ".csv">>]
       IN  /\ GeneX \in DOMAIN wt.rows
           /\ wt.rows[GeneX] = <<1, 2, 3>>
           /\ GeneX \in DOMAIN mt.rows
           /\ mt.rows[GeneX] = <<1, 2, 3>>

ScenarioRecords(variance) ==
    << [type   |-> "pathway_degree",
        gene   |-> <<"GeneX">>,
        source |-> <<"PathwayA", " -- ", "GeneX">>,
        value  |-> <<1, 1>>],
       [type   |-> "expression_count_mean",
        gene   |-> <<"GeneX">>,
        source |-> <<"1", " -- ", "GeneX">>,
        value  |-> <<2, 1>>],
       [type   |-> "expression_count_std",
        gene   |-> <<"GeneX">>,
        source |-> <<"1", " -- ", "GeneX">>,
        value  |-> variance] >>

(* C3 as stated: in the scenario read_data yields the degree 1, the mean   *)
(* 2.0 and the standard deviation 1.0.                                     *)
C3_Original ==
    (Scenario /\ ReadDataCompleted) => df = ScenarioRecords(<<1, 1>>)

(* C3 amended: in the scenario read_data yields the degree 1, the mean 2.0 *)
(* and the standard deviation sqrt(0.8) = 0.894..., the sample standard    *)
(* deviation of the six values 1, 2, 3, 1, 2, 3 of the concatenated row    *)
(* (variance 4/5).                                                         *)
C3_Scenario ==
    (Scenario /\ ReadDataCompleted) => df = ScenarioRecords(<<4, 5>>)

C3_Witness ==
    /\ Scenario
    /\ pc = "done"
    /\ Len(df) = 3
    /\ csv = df

----------------------------------------------------------------------------
(* C7: the expression_count_mean and the expression_count_std record of a  *)
(* gene symbol are computed over the same values, the row of the symbol in *)
(* the column-wise concatenation of the directory's control and mutant     *)
(* table, and carry the same gene and the same source                      *)
(* "<treatment> -- <g>".                                                   *)
C7_SameRow ==
    \A k \in Processed :
      \A m \in 1..Len(SymbolsOf(dir_list[k])) :
        LET g == SymbolsOf(dir_list[k])[m]
            r_mean == tmp[At(k, m, 2)]
            r_std  == tmp[At(k, m, 3)]
        IN  /\ r_mean.type = "expression_count_mean"
            /\ r_std.type = "expression_count_std"
            /\ IsMeanOf(r_mean.value, RowValues(dir_list[k], g))
            /\ IsSampleVarOf(r_std.value, RowValues(dir_list[k], g))
            /\ r_mean.gene = r_std.gene
            /\ r_mean.source = r_std.source
            /\ r_mean.source = SpecLabel(FieldsOf(dir_list[k]).treatment, g)

\* a two-gene perturbation, both genes with a mean and a deviation
C7_Witness ==
    /\ pc = "done"
    /\ Len(tmp) = 6
    /\ \A n \in {2, 3, 5, 6} : tmp[n].value # NaN
    /\ tmp[2].value # tmp[5].value
    /\ tmp[3].value # tmp[6].value

----------------------------------------------------------------------------
(* C9: the row of a gene symbol is looked up in the union of the rows of   *)
(* the control and the mutant table.  A symbol that is a row of only one   *)
(* of them raises nothing: the columns of the other table are missing for  *)
(* it, and its mean and standard deviation, taken over the values it has,  *)
(* are emitted.  The lookup raises exactly when the symbol is a row of     *)
(* neither table.                                                          *)
C9_RowUnion ==
    /\ \A k \in Processed :
         \A m \in 1..Len(SymbolsOf(dir_list[k])) :
           LET d == dir_list[k]
               g == SymbolsOf(d)[m]
           IN  /\ InCtrl(d, g) \/ InMut(d, g)
               /\ (InCtrl(d, g) /\ ~InMut(d, g)) =>
                    /\ IsMeanOf(tmp[At(k, m, 2)].value, CtrlValues(d, g))
                    /\ IsSampleVarOf(tmp[At(k, m, 3)].value, CtrlValues(d, g))
               /\ (InMut(d, g) /\ ~InCtrl(d, g)) =>
                    /\ IsMeanOf(tmp[At(k, m, 2)].value, MutValues(d, g))
                    /\ IsSampleVarOf(tmp[At(k, m, 3)].value, MutValues(d, g))
    /\ err = "KeyError" =>
         LET d == dir_list[idx]
             m == (Len(tmp) - Offset(idx)) \div 3 + 1
         IN  /\ ReadDataFailed
             /\ ~InCtrl(d, SymbolsOf(d)[m])
             /\ ~InMut(d, SymbolsOf(d)[m])
             /\ \A n \in 1..(m - 1) :
                  InCtrl(d, SymbolsOf(d)[n]) \/ InMut(d, SymbolsOf(d)[n])
    /\ (ReadDataFailed /\ NumSegs(dir_list[idx]) >= 5
          /\ FilesPresent(dir_list[idx]))
         => err = "KeyError"

\* GeneX is a row of the control table only, with two or more samples
C9_Witness ==
    /\ pc = "done"
    /\ Len(tmp) = 3
    /\ InCtrl(dir_list[1], SymbolsOf(dir_list[1])[1])
    /\ ~InMut(dir_list[1], SymbolsOf(dir_list[1])[1])
    /\ tmp[2].value # NaN
    /\ tmp[3].value # NaN

====
